---- MODULE Spec2Model ----
(***************************************************************************)
(* The streaming ingestion pipeline, the upload, listen and status         *)
(* requests of the whisper backend (main.py, voice_service.py), and the    *)
(* output sanitizer on its own.                                            *)
(*                                                                         *)
(* Scheduling: every handler is a coroutine on one asyncio event loop.     *)
(* Code between two awaits runs without interleaving; subprocess.run in    *)
(* process_stream is a synchronous call, so the engine invocation is part  *)
(* of the step that calls it.  The awaits of a streaming session are       *)
(* accept, receive_bytes, send_json and close; recognize_audio has none.   *)
(*                                                                         *)
(* Text is a sequence of one-character strings; "ESC", "NL", "SP", "TAB"   *)
(* and the "FW_*" tokens stand for the escape character, newline, space,   *)
(* tab and the full-width punctuation marks.  A sample array is a          *)
(* run-length encoded sequence of records [v |-> sample, n |-> repeats].   *)
(* buffer_duration is a Python float: the model keeps exact fractions and  *)
(* the IEEE special values inf, -inf and nan; the frames of the alphabets  *)
(* below have durations that are exact in binary floating point.           *)
(***************************************************************************)
EXTENDS Integers, Sequences, FiniteSets, TLC

VARIABLES
    pc,        \* per session: position of websocket_endpoint / process_audio
    conn,      \* per session: "up" or "gone" (the peer's side of the socket)
    data,      \* per session: the message receive_bytes returned (local data)
    buf,       \* per session: audio_buffer, a list of sample arrays
    dur,       \* per session: buffer_duration
    declared,  \* per session: headers decoded from the frames now in buf
    tmp,       \* per session: temp_file of the current flush
    outbox,    \* per session: replies the current flush has still to send
    engine,    \* per session: outcome of process_stream in the current iteration
    inv,       \* per session: sample arrays handed to the engine this iteration
    sent,      \* per session: replies delivered to the peer this iteration
    exitBy,    \* per session: how process_audio left its loop
    clock,     \* int(time.time())
    disk,      \* the output directory: temp-file name -> file or NoFile
    req,       \* the inputs of the last one-shot request
    resp,      \* the outcome of the last one-shot request
    modelDir,  \* the file names in the model directory
    status,    \* the reply of the last GET /api/status
    heard,     \* the last POST /api/listen: its inputs and its reply
    san        \* one run of _clean_whisper_output: input, output, position

vars == <<pc, conn, data, buf, dur, declared, tmp, outbox, engine, inv, sent,
          exitBy, clock, disk, req, resp, modelDir, status, heard, san>>

sessVars == <<pc, conn, data, buf, dur, declared, tmp, outbox, engine, inv,
              sent, exitBy>>

svcVars == <<modelDir, status, heard, san>>

(***************************************************************************)
(* Bounds of the model                                                     *)
(***************************************************************************)
MaxBuf == 4
MaxClock == 1
MaxText == 4

AllSessions == {1, 2}

(***************************************************************************)
(* Program constants                                                       *)
(***************************************************************************)
MIN_DURATION == 2
VolumeThreshold == 500
HeaderBytes == 8
Int16Min == -32768
Int32Bits == 32

Pow2(k) == 2 ^ k

(***************************************************************************)
(* Arithmetic of buffer_duration                                           *)
(***************************************************************************)
Abs(x) == IF x < 0 THEN -x ELSE x

RECURSIVE Gcd(_, _)
Gcd(a, b) == IF b = 0 THEN a ELSE Gcd(b, a % b)

Fin(n, d) ==
    LET g == Gcd(Abs(n), d)
    IN  [k |-> "fin", n |-> n \div g, d |-> d \div g]

Zero == [k |-> "fin", n |-> 0, d |-> 1]
PosInf == [k |-> "inf", n |-> 0, d |-> 1]
NegInf == [k |-> "ninf", n |-> 0, d |-> 1]
NaN == [k |-> "nan", n |-> 0, d |-> 1]

\* num_samples / sample_rate on two numpy int32 scalars: true division in
\* float64, a zero divisor gives inf, -inf or nan and no exception
TrueDivide(count, rate) ==
    IF rate = 0
    THEN IF count > 0 THEN PosInf ELSE IF count < 0 THEN NegInf ELSE NaN
    ELSE IF rate < 0 THEN Fin(-count, -rate) ELSE Fin(count, rate)

\* buffer_duration += x
FloatAdd(x, y) ==
    IF x.k = "nan" \/ y.k = "nan" THEN NaN
    ELSE IF x.k = "fin" /\ y.k = "fin"
         THEN Fin(x.n * y.d + y.n * x.d, x.d * y.d)
    ELSE IF x.k = "fin" THEN y
    ELSE IF y.k = "fin" THEN x
    ELSE IF x.k = y.k THEN x ELSE NaN

\* buffer_duration >= MIN_DURATION
ReachedMinDurationStrict(x) ==
    \/ x.k = "inf"
    \/ x.k = "fin" /\ x.n > MIN_DURATION * x.d

ReachedMinDuration(x) ==
    \/ x.k = "inf"
    \/ x.k = "fin" /\ x.n >= MIN_DURATION * x.d

(***************************************************************************)
(* Frame decoding and the volume gate                                      *)
(***************************************************************************)
\* A message is [len |-> its length in bytes, w |-> the two 32-bit words of
\* its first 8 bytes (<<>> when it has fewer), pcm |-> the int16 view of the
\* bytes after the header].  A 32-bit word is kept as its two 16-bit halves
\* [hi, lo], each in 0 .. 65535.
HalfWord == Pow2(Int32Bits \div 2)

\* the word whose bit pattern is that of the integer v (two's complement)
Word(v) == [hi |-> (v \div HalfWord) % HalfWord, lo |-> v % HalfWord]

\* np.frombuffer(..., dtype=np.int32): the bits read as a signed integer
ToInt32(w) ==
    (IF w.hi >= HalfWord \div 2 THEN w.hi - HalfWord ELSE w.hi) * HalfWord
        + w.lo

HeaderLen(m) == IF m.len < HeaderBytes THEN m.len ELSE HeaderBytes

\* np.frombuffer raises ValueError unless the byte count is a multiple of the
\* element size; unpacking the header raises unless it has two elements
DecodeFails(m) ==
    \/ HeaderLen(m) % 4 # 0
    \/ HeaderLen(m) \div 4 # 2
    \/ (m.len - HeaderBytes) % 2 # 0

SampleRateOf(m) == ToInt32(m.w[1])
NumSamplesOf(m) == ToInt32(m.w[2])

RECURSIVE RunCount(_)
RunCount(runs) ==
    IF runs = <<>> THEN 0 ELSE Head(runs).n + RunCount(Tail(runs))

\* np.abs on int16 wraps at the most negative value
AbsInt16(v) == IF v = Int16Min THEN Int16Min ELSE Abs(v)

RECURSIVE AbsSum(_)
AbsSum(runs) ==
    IF runs = <<>> THEN 0
    ELSE AbsInt16(Head(runs).v) * Head(runs).n + AbsSum(Tail(runs))

\* volume = np.abs(audio_data).mean(); volume < 500.  The mean of an empty
\* array is nan, and nan < 500 is False
VolumeGateOff(pcm) == FALSE

VolumeTooLow(pcm) ==
    /\ RunCount(pcm) > 0
    /\ AbsSum(pcm) < VolumeThreshold * RunCount(pcm)

\* np.abs(combined_audio).max(): the maximum of an array without elements
\* raises ValueError (the mean of one is nan, with a warning only)
MaxRaises(samples) == RunCount(samples) = 0

\* np.concatenate(audio_buffer)
RECURSIVE Concatenate(_)
ConcatenateLast(arrays) ==
    IF arrays = <<>> THEN <<>> ELSE arrays[Len(arrays)]

Concatenate(arrays) ==
    IF arrays = <<>> THEN <<>>
    ELSE Head(arrays) \o Concatenate(Tail(arrays))

(***************************************************************************)
(* VoiceService._clean_whisper_output                                      *)
(***************************************************************************)
Whitespace == {"SP", "NL", "TAB", "CR"}
AnsiParams == {"0", "1", "2", "3", "4", "5", "6", "7", "8", "9", ";"}
Letters ==
    {"a", "b", "c", "d", "e", "f", "g", "h", "i", "j", "k", "l", "m",
     "n", "o", "p", "q", "r", "s", "t", "u", "v", "w", "x", "y", "z",
     "A", "B", "C", "D", "E", "F", "G", "H", "I", "J", "K", "L", "M",
     "N", "O", "P", "Q", "R", "S", "T", "U", "V", "W", "X", "Y", "Z"}
Terminators == {".", "FW_DOT", "!", "FW_BANG", "?", "FW_QUESTION"}

Drop(t, k) == SubSeq(t, k + 1, Len(t))

\* the length of the longest prefix of t made of characters of S
RECURSIVE Span(_, _)
Span(t, S) ==
    IF t # <<>> /\ Head(t) \in S THEN 1 + Span(Tail(t), S) ELSE 0

\* the length of the longest prefix of t made of characters outside S
RECURSIVE SpanNot(_, _)
SpanNot(t, S) ==
    IF t # <<>> /\ Head(t) \notin S THEN 1 + SpanNot(Tail(t), S) ELSE 0

\* str.strip()
RECURSIVE RStrip(_)
RStrip(t) ==
    IF t # <<>> /\ t[Len(t)] \in Whitespace
    THEN RStrip(SubSeq(t, 1, Len(t) - 1))
    ELSE t

Strip(t) == RStrip(Drop(t, Span(t, Whitespace)))

\* re.sub(r'\x1b\[[0-9;]*[a-zA-Z]', '', text)
RECURSIVE RemoveAnsi(_)
RemoveAnsi(t) ==
    IF t = <<>> THEN <<>>
    ELSE IF Len(t) >= 2 /\ t[1] = "ESC" /\ t[2] = "["
         THEN LET rest == Drop(t, 2)
                  k == Span(rest, AnsiParams)
              IN  IF k < Len(rest) /\ rest[k + 1] \in Letters
                  THEN RemoveAnsi(Drop(rest, k + 1))
                  ELSE <<Head(t)>> \o RemoveAnsi(Tail(t))
         ELSE <<Head(t)>> \o RemoveAnsi(Tail(t))

\* the position of the first "]" of t with no newline before it, or 0
RECURSIVE CloseAt(_)
CloseAt(t) ==
    IF t = <<>> \/ Head(t) = "NL" THEN 0
    ELSE IF Head(t) = "]" THEN 1
    ELSE LET k == CloseAt(Tail(t)) IN IF k = 0 THEN 0 ELSE k + 1

\* re.sub(r'\[.*?\]', '', text): "." does not match a newline
RECURSIVE RemoveBracketed(_)
RemoveBracketed(t) ==
    IF t = <<>> THEN <<>>
    ELSE IF Head(t) = "[" /\ CloseAt(Tail(t)) > 0
         THEN RemoveBracketed(Drop(Tail(t), CloseAt(Tail(t))))
         ELSE <<Head(t)>> \o RemoveBracketed(Tail(t))

\* the last position <= k of t that holds a newline, or 0
RECURSIVE LastNewline(_, _)
LastNewline(t, k) ==
    IF k = 0 THEN 0
    ELSE IF t[k] = "NL" THEN k ELSE LastNewline(t, k - 1)

\* re.sub(r'\n\s*\n', '\n', text)
RECURSIVE CollapseBlankLines(_)
CollapseBlankLines(t) ==
    IF t = <<>> THEN <<>>
    ELSE IF Head(t) = "NL"
         THEN LET rest == Tail(t)
                  j == LastNewline(rest, Span(rest, Whitespace))
              IN  IF j > 0
                  THEN <<"NL">> \o CollapseBlankLines(Drop(rest, j))
                  ELSE <<"NL">> \o CollapseBlankLines(rest)
         ELSE <<Head(t)>> \o CollapseBlankLines(Tail(t))

\* text.split('\n')
RECURSIVE SplitLines(_)
SplitLines(t) ==
    LET p == SpanNot(t, {"NL"})
        rest == Drop(t, p)
    IN  IF rest = <<>> THEN <<SubSeq(t, 1, p)>>
        ELSE <<SubSeq(t, 1, p)>> \o SplitLines(Tail(rest))

\* re.split(r'[.!?...]+', text): one cut per run of terminators
RECURSIVE SplitSentences(_)
SplitSentences(t) ==
    LET p == SpanNot(t, Terminators)
        rest == Drop(t, p)
    IN  IF rest = <<>> THEN <<SubSeq(t, 1, p)>>
        ELSE <<SubSeq(t, 1, p)>>
                 \o SplitSentences(Drop(rest, Span(rest, Terminators)))

RECURSIVE StripEach(_)
StripEach(ls) ==
    IF ls = <<>> THEN <<>> ELSE <<Strip(Head(ls))>> \o StripEach(Tail(ls))

NonEmpty(x) == x # <<>>

\* ' '.join(...)
RECURSIVE JoinSpace(_)
JoinSpace(ls) ==
    IF ls = <<>> THEN <<>>
    ELSE IF Len(ls) = 1 THEN Head(ls)
    ELSE Head(ls) \o <<"SP">> \o JoinSpace(Tail(ls))

\* the loop over sentences with the set "seen"
RECURSIVE DedupeNoSeen(_, _)
DedupeNoSeen(ls, seen) ==
    IF ls = <<>> THEN <<>>
    ELSE LET s == Strip(Head(ls))
         IN  IF s # <<>>
             THEN <<s>> \o DedupeNoSeen(Tail(ls), seen \cup {s})
             ELSE DedupeNoSeen(Tail(ls), seen)

RECURSIVE Dedupe(_, _)
Dedupe(ls, seen) ==
    IF ls = <<>> THEN <<>>
    ELSE LET s == Strip(Head(ls))
         IN  IF s # <<>> /\ s \notin seen
             THEN <<s>> \o Dedupe(Tail(ls), seen \cup {s})
             ELSE Dedupe(Tail(ls), seen)

\* lines 256-269: the text that is split into sentences
CleanText(text) ==
    LET t1 == RemoveAnsi(text)
        t2 == RemoveBracketed(t1)
        t3 == CollapseBlankLines(t2)
        t4 == Strip(t3)
        lines == StripEach(SplitLines(t4))
    IN  JoinSpace(SelectSeq(lines, NonEmpty))

CleanWhisperOutput(text) == Dedupe(SplitSentences(CleanText(text)), {})

(***************************************************************************)
(* VoiceService.process_stream                                             *)
(***************************************************************************)
\* An engine outcome is what starting the subprocess and waiting for it
\* gives: kind "ok" (exit code 0), "nonzero" (any other exit code) or
\* "oserror" (the executable could not be started), with the captured
\* standard output and standard error.  What an invocation operation gives
\* back is [raised, msg: the text of the RuntimeError, result: the value
\* returned, launches: how many times it started the subprocess].
NoEngine == [kind |-> "none", out |-> <<>>, err |-> <<>>]
NoCall == [raised |-> FALSE, msg |-> <<>>, result |-> <<>>, launches |-> 0]

ProcessStreamSwallow(o) ==
    [raised |-> FALSE, msg |-> <<>>,
     result |-> IF o.kind = "ok" THEN CleanWhisperOutput(Strip(o.out))
                ELSE <<>>,
     launches |-> 1]

\* a second subprocess.run after a nonzero exit
ProcessStreamRetry(o) ==
    IF o.kind = "ok"
    THEN [raised |-> FALSE, msg |-> <<>>,
          result |-> CleanWhisperOutput(Strip(o.out)), launches |-> 1]
    ELSE IF o.kind = "nonzero"
    THEN [raised |-> TRUE, msg |-> <<"WHISPER_FAILED">> \o o.err,
          result |-> <<>>, launches |-> 2]
    ELSE [raised |-> TRUE, msg |-> <<"AUDIO_FAILED">>, result |-> <<>>,
          launches |-> 1]

\* one subprocess.run(check=True); CalledProcessError becomes
\* RuntimeError(f"Whisper...: {e.stderr}"), any other exception
\* RuntimeError(f"...: {str(e)}")
ProcessStream(o) ==
    IF o.kind = "ok"
    THEN [raised |-> FALSE, msg |-> <<>>,
          result |-> CleanWhisperOutput(Strip(o.out)), launches |-> 1]
    ELSE IF o.kind = "nonzero"
    THEN [raised |-> TRUE, msg |-> <<"WHISPER_FAILED">> \o o.err,
          result |-> <<>>, launches |-> 1]
    ELSE [raised |-> TRUE, msg |-> <<"AUDIO_FAILED">>, result |-> <<>>,
          launches |-> 1]

(***************************************************************************)
(* VoiceService.process_audio                                              *)
(***************************************************************************)
StartsWith(t, pat) == Len(t) >= Len(pat) /\ SubSeq(t, 1, Len(pat)) = pat

EndsWith(t, pat) ==
    Len(t) >= Len(pat) /\ SubSeq(t, Len(t) - Len(pat) + 1, Len(t)) = pat

\* t.replace(pat, ''): every occurrence, found from left to right
RECURSIVE RemoveAll(_, _)
RemoveAll(t, pat) ==
    IF t = <<>> THEN <<>>
    ELSE IF StartsWith(t, pat) THEN RemoveAll(Drop(t, Len(pat)), pat)
    ELSE <<Head(t)>> \o RemoveAll(Tail(t), pat)

\* '[BLANK_AUDIO]'
BlankAudio ==
    <<"[", "B", "L", "A", "N", "K", "_", "A", "U", "D", "I", "O", "]">>
\* the two fixed texts of step 9 (no speech content; blank audio detected)
NoSpeechText == <<"NO_SPEECH_CONTENT">>
BlankAudioText == <<"BLANK_AUDIO_DETECTED">>

\* steps 8-10 on the captured standard output
TextOf(stdout) ==
    LET text == Strip(stdout)
    IN  IF text = <<>> THEN NoSpeechText
        ELSE IF text = BlankAudio THEN BlankAudioText
        ELSE Strip(RemoveAll(text, BlankAudio))

\* wav: what wave.open finds in the file ("16k", another rate, or "notwav");
\* the check of step 2 only prints.  modelThere: os.path.exists(model_path).
\* Every exception raised inside is re-raised as RuntimeError(f"...{str(e)}")
ProcessAudioStrict(o, wav, modelThere) ==
    IF wav # "16k"
    THEN [raised |-> TRUE, msg |-> <<"AUDIO_FAILED", "BAD_FORMAT">>,
          result |-> <<>>, launches |-> 0, warned |-> TRUE]
    ELSE IF ~modelThere
    THEN [raised |-> TRUE, msg |-> <<"AUDIO_FAILED", "MODEL_MISSING">>,
          result |-> <<>>, launches |-> 0, warned |-> FALSE]
    ELSE IF o.kind = "oserror"
    THEN [raised |-> TRUE, msg |-> <<"AUDIO_FAILED">>,
          result |-> <<>>, launches |-> 1, warned |-> FALSE]
    ELSE IF o.kind = "nonzero"
    THEN [raised |-> TRUE,
          msg |-> <<"AUDIO_FAILED", "WHISPER_FAILED">> \o o.err,
          result |-> <<>>, launches |-> 1, warned |-> FALSE]
    ELSE [raised |-> FALSE, msg |-> <<>>, result |-> TextOf(o.out),
          launches |-> 1, warned |-> FALSE]

ProcessAudio(o, wav, modelThere) ==
    IF ~modelThere
    THEN [raised |-> TRUE, msg |-> <<"AUDIO_FAILED", "MODEL_MISSING">>,
          result |-> <<>>, launches |-> 0, warned |-> wav # "16k"]
    ELSE IF o.kind = "oserror"
    THEN [raised |-> TRUE, msg |-> <<"AUDIO_FAILED">>,
          result |-> <<>>, launches |-> 1, warned |-> wav # "16k"]
    ELSE IF o.kind = "nonzero"
    THEN [raised |-> TRUE,
          msg |-> <<"AUDIO_FAILED", "WHISPER_FAILED">> \o o.err,
          result |-> <<>>, launches |-> 1, warned |-> wav # "16k"]
    ELSE [raised |-> FALSE, msg |-> <<>>, result |-> TextOf(o.out),
          launches |-> 1, warned |-> wav # "16k"]

(***************************************************************************)
(* VoiceService.get_available_models                                       *)
(***************************************************************************)
Prefix == <<"g", "g", "m", "l", "-">>
Suffix == <<".", "b", "i", "n">>

\* file.startswith("ggml-") and file.endswith(".bin")
IsModelFile(f) == StartsWith(f, Prefix) /\ EndsWith(f, Suffix)

\* file.replace("ggml-", "").replace(".bin", "")
ShortName(f) == RemoveAll(RemoveAll(f, Prefix), Suffix)

\* os.path.join(self._model_dir, file)
PathOf(f) == [dir |-> "models", file |-> f]

\* The dictionaries one call can return: os.listdir raises (caught, the
\* dictionary is still empty) or lists the names in an arbitrary order, and
\* a later file with the same short name overwrites the earlier entry
AvailableModels(files, listFails) ==
    IF listFails THEN {<<>>}
    ELSE LET found == {f \in files : IsModelFile(f)}
             names == {ShortName(f) : f \in found}
         IN  {[n \in names |-> PathOf(pick[n])] :
                 pick \in {p \in [names -> found] :
                               \A n \in names : ShortName(p[n]) = n}}

(***************************************************************************)
(* Replies of the streaming session (websocket.send_json payloads)         *)
(***************************************************************************)
SuccessReply(sentence) == [status |-> "success", text |-> sentence]
NoTextReply == [status |-> "no_text", text |-> <<"NO_TEXT_DETECTED">>]
ErrorReply(msg) == [status |-> "error", text |-> <<"PROCESSING_ERROR">> \o msg]

RECURSIVE SuccessReplies(_)
SuccessReplies(result) ==
    IF result = <<>> THEN <<>>
    ELSE IF Head(result) # <<>>
         THEN <<SuccessReply(Head(result))>> \o SuccessReplies(Tail(result))
         ELSE SuccessReplies(Tail(result))

\* main.py 246-259: "if result:" sends one message per sentence, "else:"
\* sends the empty-result message
RepliesForBatched(result) ==
    IF result # <<>> THEN <<SuccessReply(Head(result))>> ELSE <<NoTextReply>>

RepliesFor(result) ==
    IF result # <<>> THEN SuccessReplies(result) ELSE <<NoTextReply>>

(***************************************************************************)
(* The output directory                                                    *)
(***************************************************************************)
NoFile == [owner |-> -1, data |-> <<>>]
NoMsg == [len |-> -1, w |-> <<>>, pcm |-> <<>>]
Names == 0 .. MaxClock

\* f"temp_{int(time.time())}.raw"
TempName == clock

\* "if os.path.exists(temp_file): os.remove(temp_file)"
RemoveTempKeep(d, name) == d

RemoveTemp(d, name) ==
    IF d[name] # NoFile THEN [d EXCEPT ![name] = NoFile] ELSE d

(***************************************************************************)
(* websocket_endpoint                                                      *)
(***************************************************************************)
\* "ggml-tiny.bin", the default model of both invocation operations
TinyFile == Prefix \o <<"t", "i", "n", "y">> \o Suffix

NoStatus == [dir |-> {}, listFails |-> FALSE, asked |-> FALSE, models |-> <<>>]
NoListen ==
    [mic |-> "none", wav |-> "none", modelThere |-> FALSE,
     engine |-> NoEngine,
     call |-> [raised |-> FALSE, msg |-> <<>>, result |-> <<>>,
               launches |-> 0, warned |-> FALSE],
     reply |-> [status |-> "none", text |-> <<>>]]
SanStart(t) == [pc |-> "in", text |-> t, sentences |-> <<>>, again |-> <<>>]

InitService ==
    /\ pc = [s \in AllSessions |-> "open"]
    /\ conn = [s \in AllSessions |-> "up"]
    /\ data = [s \in AllSessions |-> NoMsg]
    /\ buf = [s \in AllSessions |-> <<>>]
    /\ dur = [s \in AllSessions |-> Zero]
    /\ declared = [s \in AllSessions |-> <<>>]
    /\ tmp = [s \in AllSessions |-> -1]
    /\ outbox = [s \in AllSessions |-> <<>>]
    /\ engine = [s \in AllSessions |-> NoEngine]
    /\ inv = [s \in AllSessions |-> <<>>]
    /\ sent = [s \in AllSessions |-> <<>>]
    /\ exitBy = [s \in AllSessions |-> "none"]
    /\ clock = 0
    /\ disk = [n \in Names |-> NoFile]
    /\ req = [upload |-> <<>>, save |-> "none", engine |-> NoEngine,
              read |-> <<>>, tmp |-> -1]
    /\ resp = [status |-> "none", text |-> <<>>, detail |-> "none",
               call |-> NoCall]
    /\ modelDir = {TinyFile}
    /\ status = NoStatus
    /\ heard = NoListen

Init == InitService /\ san = SanStart(<<>>)

\* await websocket.accept()
Accept(s) ==
    /\ pc[s] = "open"
    /\ pc' = [pc EXCEPT ![s] = "recv"]
    /\ UNCHANGED <<conn, data, buf, dur, declared, tmp, outbox, engine, inv,
                   sent, exitBy, clock, disk, req, resp, svcVars>>

\* the peer goes away; the session sees it at its next await
Disconnect(s) ==
    /\ pc[s] \in {"recv", "proc", "send", "senderr"}
    /\ conn[s] = "up"
    /\ conn' = [conn EXCEPT ![s] = "gone"]
    /\ UNCHANGED <<pc, data, buf, dur, declared, tmp, outbox, engine, inv,
                   sent, exitBy, clock, disk, req, resp, svcVars>>

\* data = await websocket.receive_bytes() returns a message: a new loop
\* iteration begins (frames queued before a disconnect are still returned)
DeliverAnytime(s, m) ==
    /\ pc[s] \in {"recv", "send"}
    /\ Len(buf[s]) < MaxBuf
    /\ pc' = [pc EXCEPT ![s] = "proc"]
    /\ data' = [data EXCEPT ![s] = m]
    /\ UNCHANGED <<conn, buf, dur, declared, tmp, engine, inv, sent, outbox,
                   exitBy, clock, disk, req, resp, svcVars>>

Deliver(s, m) ==
    /\ pc[s] = "recv"
    /\ Len(buf[s]) < MaxBuf
    /\ pc' = [pc EXCEPT ![s] = "proc"]
    /\ data' = [data EXCEPT ![s] = m]
    /\ tmp' = [tmp EXCEPT ![s] = -1]
    /\ engine' = [engine EXCEPT ![s] = NoEngine]
    /\ inv' = [inv EXCEPT ![s] = <<>>]
    /\ sent' = [sent EXCEPT ![s] = <<>>]
    /\ UNCHANGED <<conn, buf, dur, declared, outbox, exitBy, clock, disk,
                   req, resp, svcVars>>

\* "continue" in place of "break": the loop goes back to the receive
RecvDisconnectContinue(s) ==
    /\ pc[s] = "recv"
    /\ conn[s] = "gone"
    /\ UNCHANGED vars

\* await websocket.receive_bytes() raises WebSocketDisconnect: break
RecvDisconnect(s) ==
    /\ pc[s] = "recv"
    /\ conn[s] = "gone"
    /\ pc' = [pc EXCEPT ![s] = "closing"]
    /\ exitBy' = [exitBy EXCEPT ![s] = "disconnect"]
    /\ UNCHANGED <<conn, data, buf, dur, declared, tmp, outbox, engine, inv,
                   sent, clock, disk, req, resp, svcVars>>

\* lines 274-276 after the try statement of the flush
ResetBufferShared(s) ==
    /\ buf' = [t \in AllSessions |-> <<>>]
    /\ dur' = [t \in AllSessions |-> Zero]
    /\ declared' = [t \in AllSessions |-> <<>>]

ResetKeep(s) ==
    /\ UNCHANGED <<buf, dur, declared>>

ResetBuffer(s) ==
    /\ buf' = [buf EXCEPT ![s] = <<>>]
    /\ dur' = [dur EXCEPT ![s] = Zero]
    /\ declared' = [declared EXCEPT ![s] = <<>>]

\* the finally clause of the flush when no exception is in flight, then the
\* reset and the next loop iteration; when os.remove raises, the exception
\* leaves the loop through the outer handler
FinishFlush(s, rmFails) ==
    IF rmFails /\ disk[tmp[s]] # NoFile
    THEN /\ pc' = [pc EXCEPT ![s] = "closing"]
         /\ exitBy' = [exitBy EXCEPT ![s] = "error"]
         /\ UNCHANGED <<buf, dur, declared, disk>>
    ELSE /\ disk' = RemoveTemp(disk, tmp[s])
         /\ ResetBuffer(s)
         /\ pc' = [pc EXCEPT ![s] = "recv"]
         /\ UNCHANGED exitBy

\* lines 209-242 up to the first await of the iteration: decode, gate,
\* append, and at the threshold write the temp file and run the engine
\* the flush with the engine awaited: the write and the engine's read of the
\* file are two steps, and other tasks run between them
ProcessAsync(s, o) ==
    \/ /\ pc[s] = "engine"
       /\ LET r == ProcessStream(o)
          IN  /\ inv' = [inv EXCEPT ![s] =
                     [i \in 1 .. r.launches |-> disk[tmp[s]].data]]
              /\ engine' = [engine EXCEPT ![s] = o]
              /\ outbox' = [outbox EXCEPT ![s] =
                     IF r.raised THEN <<ErrorReply(r.msg)>>
                     ELSE RepliesFor(r.result)]
              /\ pc' = [pc EXCEPT ![s] =
                     IF r.raised THEN "senderr" ELSE "send"]
       /\ UNCHANGED <<buf, dur, declared, tmp, disk, exitBy, data, conn,
                      sent, clock, req, resp, svcVars>>
    \/ /\ pc[s] = "proc"
       /\ LET m == data[s]
              newbuf == Append(buf[s], m.pcm)
              newdur == FloatAdd(dur[s],
                            TrueDivide(NumSamplesOf(m), SampleRateOf(m)))
              combined == Concatenate(newbuf)
          IN
          IF DecodeFails(m)
          THEN /\ pc' = [pc EXCEPT ![s] = "closing"]
               /\ exitBy' = [exitBy EXCEPT ![s] = "error"]
               /\ UNCHANGED <<buf, dur, declared, tmp, outbox, engine, inv,
                              disk>>
          ELSE IF VolumeTooLow(m.pcm)
          THEN /\ pc' = [pc EXCEPT ![s] = "recv"]
               /\ UNCHANGED <<buf, dur, declared, tmp, outbox, engine, inv,
                              disk, exitBy>>
          ELSE
               /\ buf' = [buf EXCEPT ![s] = newbuf]
               /\ dur' = [dur EXCEPT ![s] = newdur]
               /\ declared' = [declared EXCEPT ![s] =
                      Append(@, <<SampleRateOf(m), NumSamplesOf(m)>>)]
               /\ IF ~ReachedMinDuration(newdur)
                  THEN /\ pc' = [pc EXCEPT ![s] = "recv"]
                       /\ UNCHANGED <<tmp, outbox, engine, inv, disk,
                                      exitBy>>
                  ELSE IF MaxRaises(combined)
                  THEN /\ pc' = [pc EXCEPT ![s] = "closing"]
                       /\ exitBy' = [exitBy EXCEPT ![s] = "error"]
                       /\ UNCHANGED <<tmp, outbox, engine, inv, disk>>
                  ELSE /\ tmp' = [tmp EXCEPT ![s] = TempName]
                       /\ disk' = [disk EXCEPT ![TempName] =
                                      [owner |-> s, data |-> combined]]
                       /\ pc' = [pc EXCEPT ![s] = "engine"]
                       /\ UNCHANGED <<outbox, engine, inv, exitBy>>
       /\ UNCHANGED <<data, conn, sent, clock, req, resp, svcVars>>

Process(s, o) ==
    /\ pc[s] = "proc"
    /\ LET m == data[s]
           newbuf == Append(buf[s], m.pcm)
           newdur == FloatAdd(dur[s],
                         TrueDivide(NumSamplesOf(m), SampleRateOf(m)))
           combined == Concatenate(newbuf)
           r == ProcessStream(o)
       IN
       IF DecodeFails(m)
       THEN \* ValueError is not WebSocketDisconnect: the outer handler
            /\ pc' = [pc EXCEPT ![s] = "closing"]
            /\ exitBy' = [exitBy EXCEPT ![s] = "error"]
            /\ UNCHANGED <<buf, dur, declared, tmp, outbox, engine, inv,
                           disk>>
       ELSE IF VolumeTooLow(m.pcm)
       THEN \* continue
            /\ pc' = [pc EXCEPT ![s] = "recv"]
            /\ UNCHANGED <<buf, dur, declared, tmp, outbox, engine, inv,
                           disk, exitBy>>
       ELSE
            /\ buf' = [buf EXCEPT ![s] = newbuf]
            /\ dur' = [dur EXCEPT ![s] = newdur]
            /\ declared' = [declared EXCEPT ![s] =
                   Append(@, <<SampleRateOf(m), NumSamplesOf(m)>>)]
            /\ IF ~ReachedMinDuration(newdur)
               THEN /\ pc' = [pc EXCEPT ![s] = "recv"]
                    /\ UNCHANGED <<tmp, outbox, engine, inv, disk, exitBy>>
               ELSE IF MaxRaises(combined)
               THEN \* line 232: ValueError, before the temp file is named
                    /\ pc' = [pc EXCEPT ![s] = "closing"]
                    /\ exitBy' = [exitBy EXCEPT ![s] = "error"]
                    /\ UNCHANGED <<tmp, outbox, engine, inv, disk>>
               ELSE /\ UNCHANGED exitBy
                    /\ tmp' = [tmp EXCEPT ![s] = TempName]
                    /\ disk' = [disk EXCEPT ![TempName] =
                                   [owner |-> s, data |-> combined]]
                    /\ inv' = [inv EXCEPT ![s] =
                           [i \in 1 .. r.launches |-> disk'[TempName].data]]
                    /\ engine' = [engine EXCEPT ![s] = o]
                    /\ outbox' = [outbox EXCEPT ![s] =
                           IF r.raised THEN <<ErrorReply(r.msg)>>
                           ELSE RepliesFor(r.result)]
                    /\ pc' = [pc EXCEPT ![s] =
                           IF r.raised THEN "senderr" ELSE "send"]
    /\ UNCHANGED <<data, conn, sent, clock, req, resp, svcVars>>

\* await websocket.send_json(...) of the try body returns
SendOk(s, rmFails) ==
    /\ pc[s] = "send"
    /\ conn[s] = "up"
    /\ sent' = [sent EXCEPT ![s] = Append(@, Head(outbox[s]))]
    /\ outbox' = [outbox EXCEPT ![s] = Tail(@)]
    /\ IF Tail(outbox[s]) = <<>>
       THEN FinishFlush(s, rmFails)
       ELSE UNCHANGED <<pc, buf, dur, declared, disk, exitBy>>
    /\ UNCHANGED <<conn, data, tmp, engine, inv, clock, req, resp, svcVars>>

\* await websocket.send_json(...) of the try body raises: "except Exception"
\* goes on to send the error message
SendFail(s) ==
    /\ pc[s] = "send"
    /\ conn[s] = "gone"
    /\ pc' = [pc EXCEPT ![s] = "senderr"]
    /\ outbox' = [outbox EXCEPT ![s] = <<ErrorReply(<<"SEND_FAILED">>)>>]
    /\ UNCHANGED <<conn, data, buf, dur, declared, tmp, engine, inv, sent,
                   exitBy, clock, disk, req, resp, svcVars>>

\* await websocket.send_json(...) of the except clause returns
ErrSendOk(s, rmFails) ==
    /\ pc[s] = "senderr"
    /\ conn[s] = "up"
    /\ sent' = [sent EXCEPT ![s] = Append(@, Head(outbox[s]))]
    /\ outbox' = [outbox EXCEPT ![s] = <<>>]
    /\ FinishFlush(s, rmFails)
    /\ UNCHANGED <<conn, data, tmp, engine, inv, clock, req, resp, svcVars>>

\* await websocket.send_json(...) of the except clause raises: the finally
\* clause runs and the exception leaves the loop, as WebSocketDisconnect
\* ("break") or through the outer handler; lines 274-276 are skipped
ErrSendFail(s, rmFails, how) ==
    /\ pc[s] = "senderr"
    /\ conn[s] = "gone"
    /\ IF rmFails /\ disk[tmp[s]] # NoFile
       THEN /\ exitBy' = [exitBy EXCEPT ![s] = "error"]
            /\ UNCHANGED disk
       ELSE /\ exitBy' = [exitBy EXCEPT ![s] = how]
            /\ disk' = RemoveTemp(disk, tmp[s])
    /\ pc' = [pc EXCEPT ![s] = "closing"]
    /\ outbox' = [outbox EXCEPT ![s] = <<>>]
    /\ UNCHANGED <<conn, data, buf, dur, declared, tmp, engine, inv, sent,
                   clock, req, resp, svcVars>>

\* "await audio_task" returns; finally: await websocket.close()
CloseSocketRestart(s) ==
    /\ pc[s] = "closing"
    /\ pc' = [pc EXCEPT ![s] = "recv"]
    /\ UNCHANGED <<conn, data, buf, dur, declared, tmp, outbox, engine, inv,
                   sent, exitBy, clock, disk, req, resp, svcVars>>

CloseSocket(s) ==
    /\ pc[s] = "closing"
    /\ pc' = [pc EXCEPT ![s] = "closed"]
    /\ UNCHANGED <<conn, data, buf, dur, declared, tmp, outbox, engine, inv,
                   sent, exitBy, clock, disk, req, resp, svcVars>>

\* the wall clock reaches the next second
Tick ==
    /\ clock < MaxClock
    /\ clock' = clock + 1
    /\ UNCHANGED <<sessVars, disk, req, resp, svcVars>>

(***************************************************************************)
(* recognize_audio (POST /api/recognize)                                   *)
(***************************************************************************)
\* lines 132-145 on the list process_stream returned: "not result" holds
\* for the empty list; a list has no strip(), so for a non-empty list
\* "result.strip()" raises AttributeError inside the inner try
RecognitionOf(result) ==
    IF result = <<>>
    THEN [status |-> "no_text", text |-> <<>>, detail |-> "none"]
    ELSE [status |-> "error", text |-> <<>>, detail |-> "attribute"]

\* the HTTP outcome with what the call to process_stream gave back
WithCall(outcome, call) ==
    [status |-> outcome.status, text |-> outcome.text,
     detail |-> outcome.detail, call |-> call]

\* the whole request: the handler has no await, so it is one step.
\* save: "ok", "partial" (open succeeded, the copy raised) or "nofile" (open
\* raised); o: the engine outcome; rmFails: os.remove raises
OneShot(upload, save, o, rmFails) ==
    LET name == TempName
        written == IF save = "ok"
                   THEN [disk EXCEPT ![name] = [owner |-> 0, data |-> upload]]
                   ELSE IF save = "partial"
                   THEN [disk EXCEPT ![name] = [owner |-> 0, data |-> <<>>]]
                   ELSE disk
        r == ProcessStream(o)
        outcome == IF save # "ok"
                   THEN [status |-> "error", text |-> <<>>, detail |-> "save"]
                   ELSE IF r.raised
                   THEN [status |-> "error", text |-> <<>>,
                         detail |-> "engine"]
                   ELSE RecognitionOf(r.result)
    IN  /\ req' = [upload |-> upload, save |-> save,
                   engine |-> IF save = "ok" THEN o ELSE NoEngine,
                   read |-> [i \in 1 .. (IF save = "ok" THEN r.launches
                                                        ELSE 0) |->
                                written[name].data],
                   tmp |-> name]
        /\ resp' = WithCall(outcome, IF save = "ok" THEN r ELSE NoCall)
        /\ disk' = IF rmFails THEN written ELSE RemoveTemp(written, name)
        /\ UNCHANGED <<sessVars, clock, svcVars>>

(***************************************************************************)
(* listen (POST /api/listen) and VoiceService.listen                       *)
(***************************************************************************)
\* The handler has no await: one step.  mic: the recording succeeded or
\* raised; wav: what the recording holds; o: the engine outcome.  The
\* recording is written to transcribed-audio.wav and removed again before
\* the step ends, on the normal and on the exception path.  VoiceService.
\* listen turns every exception into a text, so the reply is always "success"
Listen(mic, wav, o) ==
    LET there == TinyFile \in modelDir
        call == IF mic = "ok" THEN ProcessAudio(o, wav, there)
                ELSE NoListen.call
        text == IF mic # "ok" THEN <<"RECORDING_ERROR">>
                ELSE IF call.raised THEN <<"PROCESSING_ERROR">> \o call.msg
                ELSE call.result
    IN  /\ heard' = [mic |-> mic, wav |-> wav, modelThere |-> there,
                     engine |-> IF call.launches > 0 THEN o ELSE NoEngine,
                     call |-> call,
                     reply |-> [status |-> "success", text |-> text]]
        /\ UNCHANGED <<sessVars, clock, disk, req, resp, modelDir, status,
                       san>>

(***************************************************************************)
(* get_status (GET /api/status) and the model directory                    *)
(***************************************************************************)
\* a file appears in, or disappears from, the model directory
AddModel(f) ==
    /\ f \notin modelDir
    /\ modelDir' = modelDir \cup {f}
    /\ UNCHANGED <<sessVars, clock, disk, req, resp, status, heard, san>>

RemoveModel(f) ==
    /\ f \in modelDir
    /\ modelDir' = modelDir \ {f}
    /\ UNCHANGED <<sessVars, clock, disk, req, resp, status, heard, san>>

\* one status query; listFails: os.listdir raises
GetStatus(listFails) ==
    /\ \E m \in AvailableModels(modelDir, listFails) :
          status' = [dir |-> modelDir, listFails |-> listFails,
                     asked |-> TRUE, models |-> m]
    /\ UNCHANGED <<sessVars, clock, disk, req, resp, modelDir, heard, san>>

(***************************************************************************)
(* Runs of the sanitizer on its own                                        *)
(***************************************************************************)
\* _clean_whisper_output(text)
Sanitize ==
    /\ san.pc = "in"
    /\ san' = [san EXCEPT !.pc = "out",
                          !.sentences = CleanWhisperOutput(san.text)]
    /\ UNCHANGED <<sessVars, clock, disk, req, resp, modelDir, status, heard>>

\* _clean_whisper_output on each sentence it returned
Resanitize ==
    /\ san.pc = "out"
    /\ san' = [san EXCEPT !.pc = "done",
                          !.again = [i \in 1 .. Len(san.sentences) |->
                                        CleanWhisperOutput(san.sentences[i])]]
    /\ UNCHANGED <<sessVars, clock, disk, req, resp, modelDir, status, heard>>

(***************************************************************************)
(* Alphabets                                                               *)
(***************************************************************************)
Tone(v, n) == <<[v |-> v, n |-> n]>>

Frame(rate, count, pcm) ==
    [len |-> HeaderBytes + 2 * RunCount(pcm),
     w |-> <<Word(rate), Word(count)>>, pcm |-> pcm]

\* half a second at 44100 Hz, above the gate
Loud == Frame(44100, 22050, Tone(1000, 22050))
\* one second at 16000 Hz, negative samples
Loud16k == Frame(16000, 16000, Tone(-2000, 16000))
\* mean absolute amplitude exactly 500
Borderline == Frame(44100, 22050, Tone(0, 11025) \o Tone(1000, 11025))
\* mean absolute amplitude 499
Quiet == Frame(44100, 22050, Tone(-499, 22050))
\* every sample -32768: np.abs leaves them negative
Wrapped == Frame(44100, 22050, Tone(Int16Min, 22050))
\* the header declares two seconds, the payload holds two samples
Mismatch == Frame(44100, 88200, Tone(3000, 2))
\* a header and no samples
EmptyPayload == Frame(44100, 22050, <<>>)
\* a zero sample rate with a zero count: 0/0
ZeroRate == Frame(0, 0, Tone(700, 4))
\* a count with the top bit set: 2^32 - 22050 read as unsigned
TopBit == Frame(44100, -22050, Tone(900, 4))
\* four bytes only
Short == [len |-> 4, w |-> <<>>, pcm |-> <<>>]
\* an odd number of payload bytes
OddPayload ==
    [len |-> HeaderBytes + 3, w |-> <<Word(44100), Word(1)>>, pcm |-> <<>>]

Messages ==
    {Loud, Loud16k, Borderline, Quiet, Wrapped, Mismatch, EmptyPayload,
     ZeroRate, TopBit, Short, OddPayload}

FewMessages == {Loud16k, Quiet}

\* what the engine wrote to standard error before a nonzero exit
ErrModel == <<"b", "a", "d", "SP", "m", "o", "d", "e", "l">>

Ok(out) == [kind |-> "ok", out |-> out, err |-> <<>>]
ExitNonzero == [kind |-> "nonzero", out |-> <<>>, err |-> ErrModel]
SpawnError == [kind |-> "oserror", out |-> <<>>, err |-> <<>>]

\* "[B]"
OutBlank == <<"[", "B", "]">>
\* "hi yo"
OutOne == <<"h", "i", "SP", "y", "o">>
\* ESC[2K a. \n\n a? b
OutTwo ==
    <<"ESC", "[", "2", "K", "a", ".", "NL", "NL", "a", "?", "SP", "b">>
\* " \n"
OutSpaces == <<"SP", "NL">>
\* the engine prints the blank-audio marker and a newline
OutBlankAudio == BlankAudio \o <<"NL">>
\* the marker next to text: "[BLANK_AUDIO] ab"
OutMarked == BlankAudio \o <<"SP", "a", "b">>

EngineOutcomes == {Ok(OutBlank), Ok(OutOne), Ok(OutTwo), ExitNonzero, SpawnError}
FewOutcomes == {Ok(OutOne), ExitNonzero}
AllOutcomes == EngineOutcomes \cup {Ok(<<>>), Ok(OutSpaces), Ok(OutBlankAudio)}

ListenOutcomes ==
    {Ok(OutBlankAudio), Ok(OutMarked), Ok(OutOne), Ok(OutSpaces), ExitNonzero,
     SpawnError}
MicOutcomes == {"ok", "error"}
WavKinds == {"16k", "44k", "notwav"}

\* names in the model directory: "ggml-a.bin", "ggml-a.bin.bin" (the same
\* short name), "ggml-a.txt", "README"
BaseFile == Prefix \o <<"a">> \o Suffix
TwiceFile == Prefix \o <<"a">> \o Suffix \o Suffix
TextFile == Prefix \o <<"a", ".", "t", "x", "t">>
Readme == <<"R", "E", "A", "D", "M", "E">>
DirFiles == {TinyFile, BaseFile, TwiceFile, TextFile, Readme}

\* sanitizer inputs: every text of at most MaxText characters over SanChars,
\* and the longer examples
SanChars == {"a", "b", ".", "SP", "[", "]", "NL", "ESC"}
\* "Hi. Hi. Bye."
HiHiBye ==
    <<"H", "i", ".", "SP", "H", "i", ".", "SP", "B", "y", "e", ".">>
\* "[BLANK_AUDIO] hello."
BlankHello == BlankAudio \o <<"SP", "h", "e", "l", "l", "o", ".">>
\* "hello world"
HelloWorld == <<"h", "e", "l", "l", "o", "SP", "w", "o", "r", "l", "d">>
\* "[MUSIC][BLANK_AUDIO]"
OnlyMarkers == <<"[", "M", "U", "S", "I", "C", "]">> \o BlankAudio
\* an escape sequence inside another: ESC[ ESC[0m m
NestedEscape == <<"ESC", "[", "ESC", "[", "0", "m", "m">>
\* "b! a? b. c"
ThreeOfFour ==
    <<"b", "!", "SP", "a", "?", "SP", "b", ".", "SP", "c">>
Examples ==
    {HiHiBye, BlankHello, HelloWorld, OnlyMarkers, NestedEscape, ThreeOfFour}
Texts ==
    UNION {[1 .. n -> SanChars] : n \in 0 .. MaxText} \cup Examples

Uploads == {Tone(1200, 3), Tone(0, 5)}
SaveOutcomes == {"ok", "partial", "nofile"}
Exits == {"disconnect", "error"}

(***************************************************************************)
(* Specifications                                                          *)
(***************************************************************************)
\* one streaming session over the full alphabet, next to one-shot requests
Next ==
    \/ \E s \in {1} :
          \/ Accept(s)
          \/ Disconnect(s)
          \/ \E m \in Messages : Deliver(s, m)
          \/ RecvDisconnect(s)
          \/ \E o \in EngineOutcomes : Process(s, o)
          \/ SendOk(s, FALSE)
          \/ SendFail(s)
          \/ ErrSendOk(s, FALSE)
          \/ \E how \in Exits : ErrSendFail(s, FALSE, how)
          \/ CloseSocket(s)
    \/ Tick
    \/ OneShot(Tone(1200, 3), "ok", ExitNonzero, FALSE)

Spec == Init /\ [][Next]_vars

\* one-shot requests over every outcome, next to one streaming session
NextOneShot ==
    \/ \E s \in {1} :
          \/ Accept(s)
          \/ Disconnect(s)
          \/ \E m \in FewMessages : Deliver(s, m)
          \/ RecvDisconnect(s)
          \/ \E o \in FewOutcomes : Process(s, o)
          \/ SendOk(s, FALSE)
          \/ SendFail(s)
          \/ ErrSendOk(s, FALSE)
          \/ \E how \in Exits : ErrSendFail(s, FALSE, how)
          \/ CloseSocket(s)
    \/ Tick
    \/ \E u \in Uploads, sv \in SaveOutcomes, o \in AllOutcomes :
          OneShot(u, sv, o, FALSE)
    \/ \E mic \in MicOutcomes, w \in WavKinds, o \in ListenOutcomes :
          Listen(mic, w, o)

SpecOneShot == Init /\ [][NextOneShot]_vars

\* status queries and listen requests while the model directory changes
NextModels ==
    \/ \E f \in DirFiles : AddModel(f)
    \/ \E f \in DirFiles : RemoveModel(f)
    \/ \E listFails \in BOOLEAN : GetStatus(listFails)
    \/ \E w \in WavKinds, o \in {Ok(OutOne), ExitNonzero} :
          Listen("ok", w, o)

SpecModels == Init /\ [][NextModels]_vars

\* two streaming sessions and upload requests, sharing the clock and the
\* output directory
\* two seconds at 16000 Hz: a frame that is flushed on arrival
TwoSeconds == Frame(16000, 32000, Tone(1500, 32000))

PairMessages == {Loud16k, TwoSeconds, Quiet, Short}

NextSessions ==
    \/ \E s \in AllSessions :
          \/ Accept(s)
          \/ Disconnect(s)
          \/ \E m \in PairMessages : Deliver(s, m)
          \/ RecvDisconnect(s)
          \/ \E o \in FewOutcomes : Process(s, o)
          \/ SendOk(s, FALSE)
          \/ SendFail(s)
          \/ ErrSendOk(s, FALSE)
          \/ \E how \in Exits : ErrSendFail(s, FALSE, how)
          \/ CloseSocket(s)
    \/ Tick
    \/ \E o \in FewOutcomes : OneShot(Tone(1200, 3), "ok", o, FALSE)

SpecSessions == Init /\ [][NextSessions]_vars

\* one session and upload requests whose os.remove may raise
NextFs ==
    \/ \E s \in {1} :
          \/ Accept(s)
          \/ Disconnect(s)
          \/ \E m \in FewMessages : Deliver(s, m)
          \/ RecvDisconnect(s)
          \/ \E o \in FewOutcomes : Process(s, o)
          \/ \E rmFails \in BOOLEAN : SendOk(s, rmFails)
          \/ SendFail(s)
          \/ \E rmFails \in BOOLEAN : ErrSendOk(s, rmFails)
          \/ \E rmFails \in BOOLEAN, how \in Exits :
                ErrSendFail(s, rmFails, how)
          \/ CloseSocket(s)
    \/ Tick
    \/ \E o \in FewOutcomes, rmFails \in BOOLEAN :
          OneShot(Tone(1200, 3), "ok", o, rmFails)

SpecFs == Init /\ [][NextFs]_vars

\* the sanitizer applied to every text of Texts
\* one session, with the progress the event loop and the claim's assumptions
\* give it: a coroutine that can run is run (the synchronous part of an
\* iteration, and with it the engine subprocess, comes to its end), an
\* awaited send returns or raises, the close returns.  Once the peer is
\* gone no new frame arrives and only the finitely many frames queued before
\* are still returned, so a receive that is tried again and again raises
\* WebSocketDisconnect: strong fairness for that step.
LiveMessages == {Loud16k, Loud, Quiet, Short}

LiveOutcomes == {Ok(OutOne), Ok(OutTwo), ExitNonzero}

NextLive ==
    \E s \in {1} :
        \/ Accept(s)
        \/ Disconnect(s)
        \/ \E m \in LiveMessages : Deliver(s, m)
        \/ RecvDisconnect(s)
        \/ \E o \in LiveOutcomes : Process(s, o)
        \/ \E rmFails \in BOOLEAN : SendOk(s, rmFails)
        \/ SendFail(s)
        \/ \E rmFails \in BOOLEAN : ErrSendOk(s, rmFails)
        \/ \E rmFails \in BOOLEAN, how \in Exits :
              ErrSendFail(s, rmFails, how)
        \/ CloseSocket(s)

\* Process(s, o) is enabled exactly when pc[s] = "proc", whatever o is, and
\* every Process step leaves "proc": weak fairness of the step with one
\* outcome is weak fairness of the step with any outcome.  It is stated with
\* one outcome, which keeps the evaluation of ENABLED small.
Fairness ==
    \A s \in {1} :
        /\ WF_vars(Process(s, ExitNonzero))
        /\ WF_vars((\E rmFails \in BOOLEAN : SendOk(s, rmFails))
                      \/ SendFail(s))
        /\ WF_vars((\E rmFails \in BOOLEAN : ErrSendOk(s, rmFails))
                      \/ \E rmFails \in BOOLEAN, how \in Exits :
                            ErrSendFail(s, rmFails, how))
        /\ WF_vars(CloseSocket(s))
        /\ SF_vars(RecvDisconnect(s))

SpecLive == Init /\ [][NextLive]_vars /\ Fairness

InitSanitizer == InitService /\ san \in {SanStart(t) : t \in Texts}

NextSanitizer == Sanitize \/ Resanitize

SpecSanitizer == InitSanitizer /\ [][NextSanitizer]_vars

(***************************************************************************)
(* Properties                                                              *)
(***************************************************************************)
\* the step in which session s processes the message it received
ProcessStep(s) == pc[s] = "proc" /\ pc'[s] # "proc"

InFlush(s) == pc[s] \in {"send", "senderr"}

RECURSIVE SumOfAbs(_)
SumOfAbs(runs) ==
    IF runs = <<>> THEN 0
    ELSE Abs(Head(runs).v) * Head(runs).n + SumOfAbs(Tail(runs))

\* the mean absolute amplitude of a non-empty sample sequence is below limit
MeanAbsBelow(runs, limit) ==
    /\ RunCount(runs) > 0
    /\ SumOfAbs(runs) < limit * RunCount(runs)

IsPrefix(a, b) == Len(a) <= Len(b) /\ a = SubSeq(b, 1, Len(a))

\* C1: processing a decodable frame whose mean absolute amplitude is below
\* 500 leaves the pending sequence and the accumulated duration as they
\* were, hands nothing to the engine, sends no reply and queues none, and the
\* session goes back to waiting for the next frame.
C1_QuietFrameLeavesBufferUnchanged ==
    [][\A s \in AllSessions :
          ( /\ ProcessStep(s)
            /\ ~DecodeFails(data[s])
            /\ MeanAbsBelow(data[s].pcm, 500) )
          => /\ buf'[s] = buf[s]
             /\ dur'[s] = dur[s]
             /\ inv'[s] = <<>>
             /\ sent'[s] = <<>>
             /\ outbox'[s] = <<>>
             /\ disk' = disk
             /\ pc'[s] = "recv"]_vars

\* a quiet frame has been processed while frames were pending
C1_Witness ==
    /\ pc[1] = "recv"
    /\ data[1] = Quiet
    /\ MeanAbsBelow(data[1].pcm, 500)
    /\ buf[1] # <<>>
    /\ dur[1] # Zero
    /\ sent[1] = <<>>

\* the exact sum of count/rate over the headers hs, as a fraction n/d with
\* d > 0 (every rate of hs is nonzero)
RECURSIVE DeclaredSeconds(_)
DeclaredSeconds(hs) ==
    IF hs = <<>> THEN [n |-> 0, d |-> 1]
    ELSE LET rest == DeclaredSeconds(Tail(hs))
             r == Abs(Head(hs)[1])
             c == IF Head(hs)[1] < 0 THEN -Head(hs)[2] ELSE Head(hs)[2]
             n == rest.n * r + c * rest.d
             d == rest.d * r
             g == Gcd(Abs(n), d)
         IN  [n |-> n \div g, d |-> d \div g]

AllRatesNonzero(hs) == \A i \in 1 .. Len(hs) : hs[i][1] # 0

TwoSecondsDeclared(hs) ==
    LET x == DeclaredSeconds(hs) IN x.n >= 2 * x.d

\* C2 as stated: while a session waits for or holds an unprocessed frame,
\* the declared durations of its pending frames sum to less than 2.0 s; the
\* step that processes an accepted frame invokes the engine exactly once
\* when the sum including that frame is 2.0 s or more and not at all when it
\* is less; a frame that is not accepted invokes nothing.  (Frames declaring
\* a zero sample rate have no declared duration and are left aside.)
C2_Original ==
    [][\A s \in AllSessions :
          /\ ( pc[s] \in {"recv", "proc"} /\ AllRatesNonzero(declared[s]) )
             => ~TwoSecondsDeclared(declared[s])
          /\ ProcessStep(s)
             => IF Len(buf'[s]) = Len(buf[s]) + 1
                THEN /\ Len(declared'[s]) = Len(buf'[s])
                     /\ AllRatesNonzero(declared'[s])
                        => Len(inv'[s]) =
                              IF TwoSecondsDeclared(declared'[s])
                              THEN 1 ELSE 0
                ELSE /\ buf'[s] = buf[s]
                     /\ inv'[s] = <<>>]_vars

\* the step in which the flush of session s ends
FlushEnds(s) == InFlush(s) /\ pc'[s] \notin {"send", "senderr"}

\* C3 as stated: when a flush ends, however it ends, the pending sequence
\* is empty and the accumulated duration is zero.
C3_Original ==
    [][\A s \in AllSessions :
          FlushEnds(s) => (buf'[s] = <<>> /\ dur'[s] = Zero)]_vars

\* C3 (amended): a flush that returns the session to the receive loop leaves
\* the pending sequence empty and the accumulated duration zero, after a
\* successful and after a failed invocation alike; a flush ends otherwise
\* only by an exception raised while a reply is sent to a peer that is gone:
\* it is then not followed by the reset, and the session leaves the loop.
C3_ResetAfterCompletedFlush ==
    [][\A s \in AllSessions :
          FlushEnds(s) =>
              IF pc'[s] = "recv"
              THEN buf'[s] = <<>> /\ dur'[s] = Zero
              ELSE /\ pc'[s] = "closing"
                   /\ conn[s] = "gone"
                   /\ buf'[s] = buf[s]
                   /\ dur'[s] = dur[s]]_vars

\* a flush whose invocation failed has completed and the buffer is reset
C3_Witness ==
    /\ pc[1] = "recv"
    /\ inv[1] # <<>>
    /\ engine[1].kind = "nonzero"
    /\ buf[1] = <<>>
    /\ dur[1] = Zero

\* the samples of the arrays a[i .. Len(a)], one after the other
RECURSIVE SamplesFrom(_, _)
SamplesFrom(a, i) ==
    IF i > Len(a) THEN <<>> ELSE a[i] \o SamplesFrom(a, i + 1)

ThreeLoud == <<Loud.pcm, Loud.pcm, Loud.pcm>>

\* C4: a processed frame is appended to the pending sequence exactly when it
\* passes the volume gate, the pending sequence is emptied only by the reset
\* that ends a flush, and the array handed to the engine is the pending
\* arrays one after the other in arrival order.  Three accepted frames of
\* 22050 samples at 44100 Hz leave 1.5 s pending and no invocation; the
\* fourth hands 88200 samples to the engine.
C4_EngineGetsAcceptedFramesInOrder ==
    [][\A s \in AllSessions :
          /\ ProcessStep(s) =>
                /\ buf'[s] = IF ~DecodeFails(data[s])
                                /\ ~VolumeTooLow(data[s].pcm)
                             THEN Append(buf[s], data[s].pcm)
                             ELSE buf[s]
                /\ inv'[s] # <<>> => inv'[s] = <<SamplesFrom(buf'[s], 1)>>
          /\ ~ProcessStep(s) =>
                \/ buf'[s] = buf[s]
                \/ InFlush(s) /\ pc'[s] = "recv" /\ buf'[s] = <<>>
          /\ ( pc[s] = "recv" /\ buf[s] = ThreeLoud ) =>
                ( dur[s] = Fin(3, 2) /\ inv[s] = <<>> )
          /\ ( ProcessStep(s) /\ buf[s] = ThreeLoud /\ data[s] = Loud ) =>
                /\ Len(inv'[s]) = 1
                /\ RunCount(inv'[s][1]) = 88200
                /\ inv'[s][1] = Loud.pcm \o Loud.pcm \o Loud.pcm \o Loud.pcm
                /\ dur'[s] = Fin(2, 1)]_vars

\* the fourth frame of the scenario has been processed, with a rejected
\* frame in between
C4_Witness ==
    /\ InFlush(1)
    /\ buf[1] = Append(ThreeLoud, Loud.pcm)
    /\ Len(inv[1]) = 1
    /\ RunCount(inv[1][1]) = 88200

\* C5: a temp file written by a streaming flush is on disk only while that
\* flush is under way: once the flush has finished, by returning to the
\* receive loop or by an exception raised while a reply was sent, no file
\* written by the session exists.
C5_TempFileGoneAfterFlush ==
    \A s \in AllSessions : \A n \in Names :
        disk[n].owner = s => ( InFlush(s) /\ tmp[s] = n )

\* a flush with a successful invocation ended by a failed send, and its temp
\* file is gone
C5_Witness ==
    /\ pc[1] = "closing"
    /\ inv[1] # <<>>
    /\ engine[1].kind = "ok"
    /\ tmp[1] \in Names
    /\ disk[tmp[1]] = NoFile

Failed(o) == o.kind \in {"nonzero", "oserror"}

\* C6: a failed engine invocation does not end the session: the step that
\* runs the engine goes on to send one reply with status "error"; with the
\* peer connected that reply is the only one delivered for the flush and the
\* session is back in the receive loop with an empty buffer, ready for the
\* next frame; it leaves the loop during such a flush only when the peer is
\* gone.
C6_EngineFailureKeepsSession ==
    [][\A s \in AllSessions :
          /\ ( ProcessStep(s) /\ inv'[s] # <<>> /\ Failed(engine'[s]) ) =>
                /\ pc'[s] = "senderr"
                /\ Len(outbox'[s]) = 1
                /\ outbox'[s][1].status = "error"
                /\ sent'[s] = <<>>
          /\ ( pc[s] = "senderr" /\ Failed(engine[s]) /\ pc'[s] # "senderr" ) =>
                IF conn[s] = "up"
                THEN /\ pc'[s] = "recv"
                     /\ Len(sent'[s]) = 1
                     /\ sent'[s][1].status = "error"
                     /\ buf'[s] = <<>>
                     /\ dur'[s] = Zero
                     /\ exitBy'[s] = "none"
                ELSE /\ pc'[s] = "closing"
                     /\ sent'[s] = <<>>
          /\ ( pc[s] = "recv" /\ Failed(engine[s]) /\ Len(buf[s]) < MaxBuf ) =>
                ENABLED Deliver(s, Loud)]_vars

\* after a failed invocation the error reply was delivered and the session
\* waits for the next frame
C6_Witness ==
    /\ pc[1] = "recv"
    /\ engine[1].kind = "oserror"
    /\ conn[1] = "up"
    /\ Len(sent[1]) = 1
    /\ sent[1][1].status = "error"
    /\ exitBy[1] = "none"

\* the replies a successful invocation with output out calls for
ExpectedReplies(out) ==
    LET sentences == CleanWhisperOutput(Strip(out))
    IN  IF Len(sentences) = 0
        THEN <<[status |-> "no_text", text |-> <<"NO_TEXT_DETECTED">>]>>
        ELSE [i \in 1 .. Len(sentences) |->
                 [status |-> "success", text |-> sentences[i]]]

\* C7: in an iteration whose invocation succeeded the replies delivered are
\* always the first ones of: one "success" reply per sentence of the
\* sanitizer, in its order, or the single "no_text" reply when it returned
\* none; when the flush has returned to the receive loop they are all of
\* them; during the sends the delivered and the remaining replies make up
\* that list.  No "error" reply is among them.
C7_OneReplyPerSentence ==
    \A s \in AllSessions :
        ( inv[s] # <<>> /\ engine[s].kind = "ok" ) =>
            /\ IsPrefix(sent[s], ExpectedReplies(engine[s].out))
            /\ pc[s] = "recv" => sent[s] = ExpectedReplies(engine[s].out)
            /\ pc[s] = "send" =>
                  sent[s] \o outbox[s] = ExpectedReplies(engine[s].out)
            /\ \A i \in 1 .. Len(sent[s]) : sent[s][i].status # "error"

\* two sentences were recognised and two success replies delivered, in order
C7_Witness ==
    /\ pc[1] = "recv"
    /\ engine[1] = Ok(OutTwo)
    /\ sent[1] = <<[status |-> "success", text |-> <<"a">>],
                   [status |-> "success", text |-> <<"b">>]>>

\* C8 as stated: a message shorter than 8 bytes is dropped: no reply, the
\* buffer unchanged, and the session back in the receive loop.
C8_Original ==
    [][\A s \in AllSessions :
          ( ProcessStep(s) /\ data[s].len < 8 ) =>
              /\ pc'[s] = "recv"
              /\ buf'[s] = buf[s]
              /\ dur'[s] = dur[s]
              /\ sent'[s] = <<>>]_vars

\* C9 as stated: the upload operation answers "success" with the recognised
\* text when the engine produced nonblank text, "no_text" when it produced
\* none, and fails only when saving the upload or invoking the engine fails.
C9_Original ==
    /\ ( req.save = "ok" /\ req.engine.kind = "ok" ) =>
          /\ CleanWhisperOutput(Strip(req.engine.out)) # <<>>
                => resp.status = "success" /\ resp.text # <<>>
          /\ CleanWhisperOutput(Strip(req.engine.out)) = <<>>
                => resp.status = "no_text"
    /\ resp.status = "error" =>
          ( req.save # "ok" \/ Failed(req.engine) )

\* C10: no file written by an upload request is on disk once the request
\* has finished, whether it answered, failed while saving after the file was
\* created, or failed in the invocation.
C10_UploadTempFileRemoved ==
    \A n \in Names : disk[n].owner # 0

\* the invocation of a saved upload raised and its temp file is gone
C10_Witness ==
    /\ req.save = "ok"
    /\ req.engine.kind = "nonzero"
    /\ resp.status = "error"
    /\ resp.detail = "engine"
    /\ disk[req.tmp].owner # 0

\* C11 as stated: on the one-shot paths (the upload request and the listen
\* request), an engine output that is exactly [BLANK_AUDIO] after trimming
\* gives the fixed blank-audio text as the result text, and an output that
\* is empty after trimming gives a fixed status string (the fixed no-speech
\* text, or on the upload path the status "no_text").
C11_Original ==
    /\ ( req.save = "ok" /\ req.engine.kind = "ok" ) =>
          /\ Strip(req.engine.out) = BlankAudio => resp.text = BlankAudioText
          /\ Strip(req.engine.out) = <<>> =>
                ( resp.text = NoSpeechText \/ resp.status = "no_text" )
    /\ heard.engine.kind = "ok" =>
          /\ Strip(heard.engine.out) = BlankAudio =>
                heard.reply.text = BlankAudioText
          /\ Strip(heard.engine.out) = <<>> =>
                heard.reply.text = NoSpeechText

\* a occurs in b as a contiguous part
IsInfix(a, b) ==
    \E i \in 0 .. Len(b) - Len(a) : SubSeq(b, i + 1, i + Len(a)) = a

\* C12: when the engine exits with a nonzero code, process_stream (called by
\* a streaming flush and by an upload request) and process_audio (called by
\* a listen request) raise an error whose message contains the captured
\* standard error, return nothing, and have started the engine exactly once;
\* the streaming session's only reply for that flush is an error reply that
\* carries the standard error, and the upload request fails without text.
C12_NonzeroExitFailsOnce ==
    /\ \A s \in AllSessions :
          ( inv[s] # <<>> /\ engine[s].kind = "nonzero" ) =>
              /\ Len(inv[s]) = 1
              /\ \A i \in 1 .. Len(sent[s] \o outbox[s]) :
                    /\ (sent[s] \o outbox[s])[i].status = "error"
                    /\ IsInfix(engine[s].err, (sent[s] \o outbox[s])[i].text)
              /\ Len(sent[s] \o outbox[s]) <= 1
    /\ req.engine.kind = "nonzero" =>
          /\ resp.call.raised
          /\ req.engine.err # <<>>
          /\ IsInfix(req.engine.err, resp.call.msg)
          /\ resp.call.result = <<>>
          /\ resp.call.launches = 1
          /\ resp.status = "error"
          /\ resp.text = <<>>
    /\ heard.engine.kind = "nonzero" =>
          /\ heard.call.raised
          /\ heard.engine.err # <<>>
          /\ IsInfix(heard.engine.err, heard.call.msg)
          /\ heard.call.result = <<>>
          /\ heard.call.launches = 1

\* all three callers have seen a nonzero exit, and the session has
\* delivered its error reply
C12_Witness ==
    /\ inv[1] # <<>>
    /\ engine[1].kind = "nonzero"
    /\ Len(sent[1]) = 1
    /\ req.engine.kind = "nonzero"
    /\ resp.call.raised
    /\ heard.engine.kind = "nonzero"
    /\ heard.call.raised

\* the trimmed, non-empty pieces between the sentence terminators of the
\* cleaned text, duplicates included
Pieces(text) ==
    SelectSeq(StripEach(SplitSentences(CleanText(text))), NonEmpty)

FirstAt(seq, x) ==
    CHOOSE k \in 1 .. Len(seq) :
        seq[k] = x /\ \A m \in 1 .. k - 1 : seq[m] # x

Range(seq) == {seq[i] : i \in 1 .. Len(seq)}

\* C13: for every input text the sentences returned are pairwise different,
\* they are exactly the different sentences of the input, and they stand in
\* the order in which each first occurs in the input; "Hi. Hi. Bye." gives
\* "Hi", "Bye".
C13_NoDuplicatesFirstOccurrenceOrder ==
    san.pc # "in" =>
        LET out == san.sentences
            cand == Pieces(san.text)
        IN  /\ \A i, j \in 1 .. Len(out) : i < j => out[i] # out[j]
            /\ Range(out) = Range(cand)
            /\ \A i, j \in 1 .. Len(out) :
                  i < j => FirstAt(cand, out[i]) < FirstAt(cand, out[j])
            /\ san.text = HiHiBye =>
                  out = << <<"H", "i">>, <<"B", "y", "e">> >>

\* "b! a? b. c" has been sanitized: the second "b" is dropped
C13_Witness ==
    /\ san.pc = "out"
    /\ san.text = ThreeOfFour
    /\ Len(Pieces(san.text)) = 4
    /\ san.sentences = << <<"b">>, <<"a">>, <<"c">> >>

\* t contains an opening bracket with a closing bracket somewhere after it
HasBracketed(t) ==
    \E a, b \in 1 .. Len(t) : a < b /\ t[a] = "[" /\ t[b] = "]"

\* t is made of bracketed annotations only: it starts with "[", ends with
\* "]", and every "]" but the last is directly followed by "["
OnlyAnnotations(t) ==
    /\ t # <<>>
    /\ t[1] = "["
    /\ t[Len(t)] = "]"
    /\ \A k \in 1 .. Len(t) - 1 : t[k] = "]" => t[k + 1] = "["
    /\ \A k \in 2 .. Len(t) : t[k] = "[" => t[k - 1] = "]"

\* C14 as stated: for every input text no returned sentence contains a
\* substring of the form [...]; an input made of bracketed annotations only
\* gives no sentence; "[BLANK_AUDIO] hello." gives "hello".
C14_Original ==
    san.pc # "in" =>
        /\ \A i \in 1 .. Len(san.sentences) : ~HasBracketed(san.sentences[i])
        /\ OnlyAnnotations(san.text) => san.sentences = <<>>
        /\ san.text = BlankHello =>
              san.sentences = << <<"h", "e", "l", "l", "o">> >>

\* t is non-empty, trimmed and on one line, and holds no escape character,
\* no bracket and no sentence terminator
IsClean(t) ==
    /\ t # <<>>
    /\ Strip(t) = t
    /\ \A k \in 1 .. Len(t) :
          t[k] \notin {"NL", "ESC", "[", "]"} \cup Terminators

\* C15 as stated: a clean text is returned as the only sentence, and
\* sanitizing any sentence the sanitizer returned gives that sentence alone.
C15_Original ==
    /\ ( san.pc # "in" /\ IsClean(san.text) ) =>
          san.sentences = <<san.text>>
    /\ san.pc = "done" =>
          \A i \in 1 .. Len(san.sentences) :
              san.again[i] = <<san.sentences[i]>>

\* f is named ggml-*.bin
NamedModel(f) ==
    /\ Len(f) >= Len(Prefix) + Len(Suffix)
    /\ SubSeq(f, 1, Len(Prefix)) = Prefix
    /\ SubSeq(f, Len(f) - Len(Suffix) + 1, Len(f)) = Suffix

\* C16 as stated: the mapping a status query returns is computed from the
\* directory as it is at that query: it has one entry per file named
\* ggml-*.bin, each such file's path is the value of an entry and every
\* value is such a path; when the listing fails the mapping is empty.
C16_Original ==
    status.asked =>
        IF status.listFails THEN status.models = <<>>
        ELSE LET found == {f \in status.dir : NamedModel(f)}
                 m == status.models
             IN  /\ Cardinality(DOMAIN m) = Cardinality(found)
                 /\ \A f \in found : \E n \in DOMAIN m : m[n] = PathOf(f)
                 /\ \A n \in DOMAIN m : m[n].file \in found

\* x < y on the values of buffer_duration (a nan is less than nothing)
Less(x, y) ==
    IF x.k = "nan" \/ y.k = "nan" THEN FALSE
    ELSE IF x.k = "fin" /\ y.k = "fin" THEN x.n * y.d < y.n * x.d
    ELSE IF x.k = "ninf" THEN y.k # "ninf"
    ELSE IF y.k = "inf" THEN x.k # "inf"
    ELSE FALSE

\* C17 as stated: the sample rate and the sample count decoded from a frame
\* are never negative, the duration an accepted frame adds is never
\* negative, and the accumulated duration goes down only by the reset that
\* ends a flush.
C17_Original ==
    [][\A s \in AllSessions :
          /\ ( ProcessStep(s) /\ Len(buf'[s]) = Len(buf[s]) + 1 ) =>
                /\ declared'[s][Len(declared'[s])][1] >= 0
                /\ declared'[s][Len(declared'[s])][2] >= 0
          /\ Less(dur'[s], dur[s]) =>
                ( InFlush(s) /\ pc'[s] = "recv" /\ dur'[s] = Zero )]_vars

\* the positions inside the receive loop
InLoop == {"recv", "proc", "send", "senderr"}

Left == {"closing", "closed"}

\* C18: a session goes from open into its receive loop once, by the accept;
\* it leaves the loop only for the closing step, and only because the
\* receive reported the peer's disconnect or because an exception escaped
\* (a frame that cannot be decoded, the statistics of an empty flush, a
\* reply sent to a peer that is gone); after it has left it receives no
\* frame, starts no invocation, writes no file, sends and queues no reply
\* and never re-enters the loop; the close is attempted once, by the one
\* step from closing to closed, and closed is final.
C18_SessionLifecycle ==
    [][\A s \in AllSessions :
          /\ pc[s] = "open" => pc'[s] \in {"open", "recv"}
          /\ ( pc[s] \notin InLoop /\ pc'[s] \in InLoop ) => pc[s] = "open"
          /\ pc'[s] \in InLoop \cup {"open"} => exitBy'[s] = "none"
          /\ ( pc[s] \in InLoop /\ pc'[s] \notin InLoop ) =>
                /\ pc'[s] = "closing"
                /\ exitBy'[s] \in {"disconnect", "error"}
                /\ \/ pc[s] = "recv" /\ conn[s] = "gone"
                      /\ exitBy'[s] = "disconnect"
                   \/ pc[s] = "proc" /\ exitBy'[s] = "error"
                      /\ ( DecodeFails(data[s]) \/
                           RunCount(SamplesFrom(buf'[s], 1)) = 0 )
                   \/ pc[s] = "senderr" /\ conn[s] = "gone"
          /\ pc[s] \in Left =>
                /\ pc'[s] \in Left
                /\ data'[s] = data[s]
                /\ inv'[s] = inv[s]
                /\ engine'[s] = engine[s]
                /\ sent'[s] = sent[s]
                /\ outbox'[s] = <<>>
                /\ buf'[s] = buf[s]
                /\ exitBy'[s] = exitBy[s]
                /\ \A n \in Names : disk'[n].owner = s => disk'[n] = disk[n]
          /\ pc[s] = "closing" => ENABLED CloseSocket(s)
          /\ pc[s] = "closed" => pc'[s] = "closed"]_vars

\* a session that was ended by a frame it could not decode has been closed
C18_Witness ==
    /\ pc[1] = "closed"
    /\ exitBy[1] = "error"
    /\ data[1] = Short
    /\ buf[1] # <<>>

OwnsFile(s) == \E n \in Names : disk[n].owner = s

\* C19: a session has at most one invocation under way.  The step that
\* runs the engine runs it once, and only when no reply of an earlier
\* invocation is waiting to be sent and no temp file of the session is on
\* disk; from that step until the flush ends the session receives no frame
\* and runs no other invocation; and when it waits for a frame again after
\* an invocation, that invocation's replies have been sent and the buffer is
\* empty with zero duration.
C19_OneInvocationAtATime ==
    [][\A s \in AllSessions :
          /\ ( ProcessStep(s) /\ inv'[s] # <<>> ) =>
                /\ Len(inv'[s]) = 1
                /\ outbox[s] = <<>>
                /\ ~OwnsFile(s)
                /\ InFlush(s)'
          /\ inv'[s] # inv[s] =>
                \/ ProcessStep(s) /\ ~InFlush(s)
                \/ pc[s] = "recv" /\ pc'[s] = "proc" /\ inv'[s] = <<>>
          /\ InFlush(s) =>
                /\ inv'[s] = inv[s]
                /\ engine'[s] = engine[s]
                /\ data'[s] = data[s]
                /\ buf'[s] \in {buf[s], <<>>}
          /\ ( pc'[s] = "recv" /\ inv'[s] # <<>> ) =>
                /\ outbox'[s] = <<>>
                /\ sent'[s] # <<>>
                /\ ~OwnsFile(s)'
                /\ buf'[s] = <<>>
                /\ dur'[s] = Zero]_vars

\* the first of two replies has been sent and the second is still to go
C19_Witness ==
    /\ pc[1] = "send"
    /\ Len(inv[1]) = 1
    /\ Len(sent[1]) = 1
    /\ Len(outbox[1]) = 1
    /\ OwnsFile(1)

\* C20 as stated (its last part): from the completion of a session's engine
\* invocation until the session has removed its temp file and reset its
\* buffer no other task runs: no other session takes a step and no upload
\* or listen request is served.
C20_Original ==
    [][\A s \in AllSessions :
          InFlush(s) =>
              /\ req' = req
              /\ resp' = resp
              /\ heard' = heard
              /\ status' = status
              /\ \A t \in AllSessions \ {s} : pc'[t] = pc[t]]_vars

\* what belongs to session t alone
Own(t) ==
    <<pc[t], data[t], buf[t], dur[t], declared[t], tmp[t], outbox[t],
      engine[t], inv[t], sent[t], exitBy[t]>>

\* C21: every step is the step of at most one session, or of a request, or
\* of the environment: a step that changes anything of one session leaves
\* the position, the pending sequence, the accumulated duration and the exit
\* state of every other session as they were, and so does a step that
\* serves an upload request; a session leaves its loop only for a cause of
\* its own: its peer is gone, its own frame cannot be decoded, or its own
\* flush is empty.
C21_SessionsIsolated ==
    [][\A s \in AllSessions :
          /\ Own(s)' # Own(s) =>
                \A t \in AllSessions \ {s} :
                    /\ buf'[t] = buf[t]
                    /\ dur'[t] = dur[t]
                    /\ pc'[t] = pc[t]
                    /\ exitBy'[t] = exitBy[t]
          /\ ( req' # req \/ resp' # resp ) => Own(s)' = Own(s)
          /\ ( pc[s] \in InLoop /\ pc'[s] \notin InLoop ) =>
                \/ conn[s] = "gone"
                \/ pc[s] = "proc" /\ DecodeFails(data[s])
                \/ pc[s] = "proc" /\ RunCount(SamplesFrom(buf'[s], 1)) = 0]_vars

\* one session was closed by its own malformed frame while the other is in
\* the middle of a flush with its buffer intact
C21_Witness ==
    /\ pc[1] = "closed"
    /\ exitBy[1] = "error"
    /\ pc[2] = "send"
    /\ Len(buf[2]) = 2
    /\ resp.status # "none"

\* C22 as stated: a delete that fails does not change what follows.  A
\* flush whose replies were sent to a connected peer ends, whether or not
\* the delete worked, with the buffer reset and the session back in the
\* receive loop; an upload request whose file could not be deleted still
\* gives one of its regular outcomes.
C22_Original ==
    [][/\ \A s \in AllSessions :
             ( FlushEnds(s) /\ conn[s] = "up" ) =>
                 /\ pc'[s] = "recv"
                 /\ buf'[s] = <<>>
                 /\ dur'[s] = Zero
                 /\ exitBy'[s] = "none"
       /\ ( req' # req /\ disk'[req'.tmp].owner = 0 ) =>
             /\ resp'.status \in {"no_text", "error"}
             /\ resp'.detail \in {"none", "engine", "attribute"}]_vars

\* C23: in process_audio the format check only reports.  For a recording
\* whose sample rate is not 16000, or that is no WAV file at all, a warning
\* is printed and, with the model file present, the engine is started once
\* with that file all the same; the call then fails exactly when the engine
\* fails, and otherwise returns the text of the engine's output.  With the
\* model file absent it fails for that reason, whatever the format.
C23_WavCheckAdvisory ==
    heard.mic = "ok" =>
        /\ heard.call.warned <=> heard.wav # "16k"
        /\ IF heard.modelThere
           THEN /\ heard.call.launches = 1
                /\ heard.engine.kind \in {"ok", "nonzero", "oserror"}
                /\ heard.call.raised <=> Failed(heard.engine)
                /\ heard.engine = Ok(OutOne) =>
                      /\ heard.call.result = OutOne
                      /\ heard.reply.text = OutOne
           ELSE /\ heard.call.launches = 0
                /\ heard.call.raised
                /\ heard.call.msg = <<"AUDIO_FAILED", "MODEL_MISSING">>

\* a recording that is no WAV file was handed to the engine and transcribed
C23_Witness ==
    /\ heard.mic = "ok"
    /\ heard.wav = "notwav"
    /\ heard.call.warned
    /\ heard.call.launches = 1
    /\ ~heard.call.raised
    /\ heard.reply.text = OutOne

\* the signed reading of every header field is the unsigned value the frame
\* declares on the wire (its top bit is clear)
TopBitsClear(hs) ==
    \A i \in 1 .. Len(hs) : hs[i][1] >= 0 /\ hs[i][2] >= 0

\* C24 as stated: at every point of a session there is one header per
\* pending frame and the accumulated duration is the sum, over the pending
\* frames, of the sample count the frame declares divided by the sample rate
\* it declares (both unsigned 32-bit fields); an accepted frame is buffered
\* with its whole payload whatever count it declares.  (Frames declaring a
\* zero sample rate have no declared duration and are left aside.)
C24_Original ==
    [][\A s \in AllSessions :
          /\ Len(declared'[s]) = Len(buf'[s])
          /\ AllRatesNonzero(declared'[s]) =>
                /\ TopBitsClear(declared'[s])
                /\ dur'[s] = Fin(DeclaredSeconds(declared'[s]).n,
                                 DeclaredSeconds(declared'[s]).d)
          /\ ( ProcessStep(s) /\ Len(buf'[s]) = Len(buf[s]) + 1 ) =>
                buf'[s] = Append(buf[s], data[s].pcm)]_vars

\* C25 as stated: whenever a session waits for its next frame its
\* accumulated duration is a number below the 2.0-second threshold.
C25_Original ==
    \A s \in AllSessions :
        pc[s] = "recv" => Less(dur[s], Fin(MIN_DURATION, 1))

\* C26: whatever other sessions and upload requests do with files of the
\* same name, the file an engine invocation read held exactly the audio of
\* the task that issued it: during a flush, the one invocation of the
\* session read the concatenation of that session's pending frames from the
\* file the session named; the invocation of an upload request read the
\* uploaded bytes.
C26_EngineReadsOwnAudio ==
    /\ \A s \in AllSessions :
          InFlush(s) =>
              /\ tmp[s] \in Names
              /\ inv[s] = <<Concatenate(buf[s])>>
    /\ req.save = "ok" => req.read = <<req.upload>>

\* two sessions are in a flush under the same file name with different
\* audio; the file now holds the second writer's
C26_Witness ==
    /\ InFlush(1) /\ InFlush(2)
    /\ tmp[1] = tmp[2]
    /\ inv[1] # inv[2]
    /\ disk[tmp[1]].owner = 2
    /\ disk[tmp[1]].data # Concatenate(buf[1])

\* C27: the processing of a received frame comes to an end, with the session
\* waiting for the next frame or closed; a session in its loop whose peer
\* is gone is eventually closed.
C27_ProcessingTerminates ==
    \A s \in AllSessions :
        /\ ( pc[s] = "proc" ) ~> ( pc[s] \in {"recv", "closed"} )
        /\ ( conn[s] = "gone" /\ pc[s] \in InLoop ) ~> ( pc[s] = "closed" )

\* the peer went away during a flush; the session was closed by the
\* disconnect the next receive reported
C27_Witness ==
    /\ pc[1] = "closed"
    /\ conn[1] = "gone"
    /\ exitBy[1] = "disconnect"
    /\ sent[1] # <<>>

====
